---- MODULE Spec2Model ----
(***************************************************************************)
(* Model of the log viewer's WebSocket handler (src/main.go, wsHandler).   *)
(*                                                                         *)
(* One handler invocation per session.  Each session has the handler       *)
(* (main) task, the heartbeat goroutine started at main.go:45 and, after   *)
(* tail.TailFile, the tailing goroutine of the tail package that feeds the *)
(* unbuffered channel t.Lines.  The log file and the clients are the       *)
(* environment.                                                            *)
(***************************************************************************)
EXTENDS Integers, Sequences, FiniteSets, TLC

VARIABLES
    exists,     \* TRUE when the log file exists on disk
    gen,        \* identity of the file at the path: counts the times the
                \* file was removed or truncated
    file,       \* the complete lines of the log file, oldest first
    pc,         \* pc[s]: position of the handler task of session s
    hb,         \* hb[s]: position of the heartbeat goroutine of session s
    conn,       \* conn[s]: "none", "open" or "closed" (server side handle)
    broken,     \* broken[s]: the peer is gone, writes to conn[s] fail
    cancelled,  \* cancelled[s]: r.Context().Done() is closed
    tail,       \* tail[s]: the tailer started by tail.TailFile
    pending,    \* pending[s]: payload the handler is about to write
    frames,     \* frames[s]: text frames the client has received, in order
    pings,      \* pings[s]: ping frames written successfully (saturating)
    logs,       \* logs[s]: kinds of log records the session has emitted
    cause,      \* cause[s]: which return statement ended the handler
    status      \* status[s]: HTTP status answered instead of an upgrade

vars == <<exists, gen, file, pc, hb, conn, broken, cancelled, tail, pending,
          frames, pings, logs, cause, status>>

\* ---------------------------------------------------------------- bounds
MaxFileLen == 2      \* lines the environment writes to the log file
MaxErrEvents == 1    \* tail events carrying an error, per session
MaxPings == 3        \* the ping counter saturates here
MaxRotations == 1    \* times the log file is removed or truncated

\* the handler invocations the server knows of, and the ones that run in
\* the specification below (sessions share nothing but the log file)
Sessions == {"s1", "s2"}
Running == {"s1"}

\* --------------------------------------------------------- program data
LogEndpoint == "/ws/uwsgi_log"
Paths == {LogEndpoint, "/other"}
NL == "\n"
\* line texts the log producer writes
Texts == {<<"a">>}
\* text of a tail event that reports an error
ErrText == <<"e">>
StatusNotFound == 404

Min(a, b) == IF a < b THEN a ELSE b

LineFrameRaw(text) == text

\* []byte(line.Text + "\n")
LineFrame(text) == Append(text, NL)

\* the bytes of a file holding the given lines, as os.ReadFile returns them
RECURSIVE Content(_)
Content(lines) ==
    IF lines = <<>> THEN <<>>
    ELSE LineFrame(Head(lines)) \o Content(Tail(lines))

\* byte offset at which line number i (1-based) of the file starts
OffsetOf(lines, i) == Len(Content(SubSeq(lines, 1, i - 1)))

\* st: "none", "open" (goroutine running, t.Lines open) or "dead" (goroutine
\* ended, t.Lines closed); fatal: the tailer ended on an error; gen: the file
\* the tailer has open; cursor: lines of it read so far; old: lines of a
\* removed file still unread through the open handle; buf: the event the
\* goroutine is blocked sending; errs: error events sent so far
NoTail == [st |-> "none", fatal |-> FALSE, gen |-> 0, cursor |-> 0,
           old |-> <<>>, buf |-> <<>>, errs |-> 0]

TailFileSeekEnd ==
    [st |-> "open", fatal |-> FALSE, gen |-> gen, cursor |-> Len(file),
     old |-> <<>>, buf |-> <<>>, errs |-> 0]

\* tail.TailFile(path, Config{Follow, ReOpen, Poll, MustExist: false}):
\* no Location is given, so the tailer starts reading at the first line;
\* with MustExist false a missing file is waited for, not an error.
TailFile == [st |-> "open", fatal |-> FALSE, gen |-> gen, cursor |-> 0,
             old |-> <<>>, buf |-> <<>>, errs |-> 0]

\* t.Cleanup(): removes the inotify watches of the file name.  It does not
\* stop the tailing goroutine (that is t.Stop(), which the handler never
\* calls), so the tailer and its file handle stay as they are.
Cleanup(t) == t

\* conn.WriteMessage succeeds on an open connection with a live peer
WriteOK(s) == conn[s] = "open" /\ ~broken[s]

\* a text frame; off, g and src record where its bytes come from: the byte
\* offset and the identity of the file, and "init", "line" or "err"
TextFrame(payload, off, g, src) ==
    [payload |-> payload, off |-> off, gen |-> g, src |-> src]

\* a line event of t.Lines: Text, Err set or not, and where the line was read
LineEvent(text, err, off, g) ==
    [text |-> text, err |-> err, off |-> off, gen |-> g]

Init ==
    /\ exists \in BOOLEAN
    /\ gen = 0
    /\ file = <<>>
    /\ pc = [s \in Sessions |-> "idle"]
    /\ hb = [s \in Sessions |-> "none"]
    /\ conn = [s \in Sessions |-> "none"]
    /\ broken = [s \in Sessions |-> FALSE]
    /\ cancelled = [s \in Sessions |-> FALSE]
    /\ tail = [s \in Sessions |-> NoTail]
    /\ pending = [s \in Sessions |-> <<>>]
    /\ frames = [s \in Sessions |-> <<>>]
    /\ pings = [s \in Sessions |-> 0]
    /\ logs = [s \in Sessions |-> {}]
    /\ cause = [s \in Sessions |-> "none"]
    /\ status = [s \in Sessions |-> 0]

\* ------------------------------------------------------------ environment
\* the log producer creates the file
CreateFile ==
    /\ ~exists
    /\ exists' = TRUE
    /\ file' = <<>>
    /\ UNCHANGED <<gen, pc, hb, conn, broken, cancelled, tail, pending, frames,
                   pings, logs, cause, status>>

\* the log producer appends one complete line
AppendLine ==
    /\ exists
    /\ Len(file) < MaxFileLen
    /\ \E t \in Texts : file' = Append(file, t)
    /\ UNCHANGED <<exists, gen, pc, hb, conn, broken, cancelled, tail,
                   pending, frames, pings, logs, cause, status>>

\* the lines of the file at the path that tailer t has not read yet, as the
\* events it will send for them
Unread(t) ==
    [k \in 1..(Len(file) - t.cursor) |->
        LineEvent(file[t.cursor + k], FALSE, OffsetOf(file, t.cursor + k), gen)]

\* log rotation, first half: the file is removed from the path (the second
\* half is CreateFile).  A tailer that has it open keeps its handle and can
\* still read what it had not read.
RemoveFile ==
    /\ exists
    /\ gen < MaxRotations
    /\ exists' = FALSE
    /\ file' = <<>>
    /\ gen' = gen + 1
    /\ tail' = [s \in Sessions |->
                  IF tail[s].st = "open" /\ tail[s].gen = gen
                  THEN [tail[s] EXCEPT !.old = Unread(tail[s])]
                  ELSE tail[s]]
    /\ UNCHANGED <<pc, hb, conn, broken, cancelled, pending, frames, pings,
                   logs, cause, status>>

\* the file is truncated in place: its content is gone
Truncate ==
    /\ exists
    /\ gen < MaxRotations
    /\ file # <<>>
    /\ file' = <<>>
    /\ gen' = gen + 1
    /\ UNCHANGED <<exists, pc, hb, conn, broken, cancelled, tail, pending,
                   frames, pings, logs, cause, status>>

\* the transport reports that the client's request has ended
ClientCancel(s) ==
    /\ conn[s] = "open"
    /\ ~cancelled[s]
    /\ cancelled' = [cancelled EXCEPT ![s] = TRUE]
    /\ UNCHANGED <<exists, gen, file, pc, hb, conn, broken, tail, pending, frames,
                   pings, logs, cause, status>>

\* the peer goes away: from now on writes to the connection fail
BreakConn(s) ==
    /\ conn[s] = "open"
    /\ ~broken[s]
    /\ broken' = [broken EXCEPT ![s] = TRUE]
    /\ UNCHANGED <<exists, gen, file, pc, hb, conn, cancelled, tail, pending,
                   frames, pings, logs, cause, status>>

\* ------------------------------------------------------- tailing goroutine
\* the tailer reads the next complete line and blocks sending it on t.Lines:
\* first what is left of a removed file it still has open, then the lines of
\* the file at the path
TailRead(s) ==
    /\ tail[s].st = "open"
    /\ tail[s].buf = <<>>
    /\ IF tail[s].old # <<>>
       THEN tail' = [tail EXCEPT ![s].old = Tail(@),
                                 ![s].buf = <<Head(tail[s].old)>>]
       ELSE /\ exists
            /\ tail[s].gen = gen
            /\ tail[s].cursor < Len(file)
            /\ LET i == tail[s].cursor + 1
               IN tail' = [tail EXCEPT
                             ![s].cursor = i,
                             ![s].buf = <<LineEvent(file[i], FALSE,
                                                    OffsetOf(file, i), gen)>>]
    /\ UNCHANGED <<exists, gen, file, pc, hb, conn, broken, cancelled, pending,
                   frames, pings, logs, cause, status>>

OnReplacedNoReOpen(t) == [t EXCEPT !.st = "dead"]

\* Follow, ReOpen and Poll are set: a tailer that finds the file at the path
\* replaced or truncated opens the file that is there now and reads it from
\* its start
OnReplaced(t) == [t EXCEPT !.gen = gen, !.cursor = 0]

\* the tailer has read all it can of the file it has open, polls the path
\* and finds another file there, or the same one truncated
TailReopen(s) ==
    /\ tail[s].st = "open"
    /\ tail[s].buf = <<>>
    /\ tail[s].old = <<>>
    /\ exists
    /\ tail[s].gen # gen
    /\ tail' = [tail EXCEPT ![s] = OnReplaced(@)]
    /\ UNCHANGED <<exists, gen, file, pc, hb, conn, broken, cancelled, pending,
                   frames, pings, logs, cause, status>>

\* the tailer sends an event whose Err is set while the channel stays open
TailErrEvent(s) ==
    /\ tail[s].st = "open"
    /\ tail[s].buf = <<>>
    /\ tail[s].errs < MaxErrEvents
    /\ tail' = [tail EXCEPT ![s].errs = @ + 1,
                            ![s].buf = <<LineEvent(ErrText, TRUE, -1,
                                                   tail[s].gen)>>]
    /\ UNCHANGED <<exists, gen, file, pc, hb, conn, broken, cancelled, pending,
                   frames, pings, logs, cause, status>>

\* the tailer gives up on an error: its goroutine ends and closes t.Lines
TailDie(s) ==
    /\ tail[s].st = "open"
    /\ tail[s].buf = <<>>
    /\ tail' = [tail EXCEPT ![s].st = "dead", ![s].fatal = TRUE]
    /\ UNCHANGED <<exists, gen, file, pc, hb, conn, broken, cancelled, pending,
                   frames, pings, logs, cause, status>>

\* ------------------------------------------------------------ wsHandler
ReturnNoClose(s, why) ==
    /\ pc' = [pc EXCEPT ![s] = "done"]
    /\ cause' = [cause EXCEPT ![s] = why]
    /\ tail' = [tail EXCEPT ![s] = IF @.st = "none" THEN @ ELSE Cleanup(@)]
    /\ conn' = conn

ReturnSharedWatch(s, why) ==
    /\ pc' = [pc EXCEPT ![s] = "done"]
    /\ cause' = [cause EXCEPT ![s] = why]
    /\ tail' = [u \in Sessions |->
                  IF u = s
                  THEN IF tail[u].st = "none" THEN tail[u] ELSE Cleanup(tail[u])
                  ELSE IF tail[s].st # "none" /\ tail[u].st = "open"
                  THEN [tail[u] EXCEPT !.st = "dead"]
                  ELSE tail[u]]
    /\ conn' = [conn EXCEPT ![s] = "closed"]

\* the deferred calls run at a return after the upgrade: t.Cleanup() when
\* TailFile had succeeded, then conn.Close()
Return(s, why) ==
    /\ pc' = [pc EXCEPT ![s] = "done"]
    /\ cause' = [cause EXCEPT ![s] = why]
    /\ tail' = [tail EXCEPT ![s] = IF @.st = "none" THEN @ ELSE Cleanup(@)]
    /\ conn' = [conn EXCEPT ![s] = "closed"]

NotFoundNoReturn(s) ==
    /\ pc[s] = "idle"
    /\ \E path \in Paths \ {LogEndpoint} : TRUE
    /\ status' = [status EXCEPT ![s] = StatusNotFound]
    /\ conn' = [conn EXCEPT ![s] = "open"]
    /\ hb' = [hb EXCEPT ![s] = "waiting"]
    /\ pc' = [pc EXCEPT ![s] = "readfile"]
    /\ UNCHANGED <<exists, gen, file, broken, cancelled, tail, pending,
                   frames, pings, logs, cause>>

\* the request path is not the log endpoint: 404 and nothing else
NotFound(s) ==
    /\ pc[s] = "idle"
    /\ \E path \in Paths \ {LogEndpoint} : TRUE
    /\ status' = [status EXCEPT ![s] = StatusNotFound]
    /\ pc' = [pc EXCEPT ![s] = "rejected"]
    /\ UNCHANGED <<exists, gen, file, hb, conn, broken, cancelled, tail, pending,
                   frames, pings, logs, cause>>

\* upgrader.Upgrade fails: log and return
UpgradeFail(s) ==
    /\ pc[s] = "idle"
    /\ logs' = [logs EXCEPT ![s] = @ \cup {"upgradefail"}]
    /\ pc' = [pc EXCEPT ![s] = "rejected"]
    /\ UNCHANGED <<exists, gen, file, hb, conn, broken, cancelled, tail, pending,
                   frames, pings, cause, status>>

\* the path matches and the upgrade succeeds; conn.Close is deferred and
\* the heartbeat goroutine is started with its 30 s ticker
Connect(s) ==
    /\ pc[s] = "idle"
    /\ conn' = [conn EXCEPT ![s] = "open"]
    /\ hb' = [hb EXCEPT ![s] = "waiting"]
    /\ logs' = [logs EXCEPT ![s] = @ \cup {"connected"}]
    /\ pc' = [pc EXCEPT ![s] = "readfile"]
    /\ UNCHANGED <<exists, gen, file, broken, cancelled, tail, pending, frames,
                   pings, cause, status>>

ReadFileFatal(s) ==
    /\ pc[s] = "readfile"
    /\ IF ~exists
       THEN /\ logs' = [logs EXCEPT ![s] = @ \cup {"readfail"}]
            /\ Return(s, "readfail")
            /\ UNCHANGED pending
       ELSE IF Len(Content(file)) > 0
       THEN /\ pending' = [pending EXCEPT
                             ![s] = <<TextFrame(Content(file), 0, gen, "init")>>]
            /\ pc' = [pc EXCEPT ![s] = "winit"]
            /\ UNCHANGED <<logs, cause, tail, conn>>
       ELSE /\ pc' = [pc EXCEPT ![s] = "tailfile"]
            /\ UNCHANGED <<logs, pending, cause, tail, conn>>
    /\ UNCHANGED <<exists, gen, file, hb, broken, cancelled, frames, pings, status>>

\* os.ReadFile(logFilePath): an error is logged; empty content is skipped;
\* otherwise the handler goes on to write the content as one text frame
ReadFile(s) ==
    /\ pc[s] = "readfile"
    /\ IF ~exists
       THEN /\ logs' = [logs EXCEPT ![s] = @ \cup {"readfail"}]
            /\ pc' = [pc EXCEPT ![s] = "tailfile"]
            /\ UNCHANGED pending
       ELSE IF Len(Content(file)) > 0
       THEN /\ pending' = [pending EXCEPT
                             ![s] = <<TextFrame(Content(file), 0, gen, "init")>>]
            /\ pc' = [pc EXCEPT ![s] = "winit"]
            /\ UNCHANGED logs
       ELSE /\ pc' = [pc EXCEPT ![s] = "tailfile"]
            /\ UNCHANGED <<logs, pending>>
    /\ UNCHANGED <<exists, gen, file, hb, conn, broken, cancelled, tail, frames,
                   pings, cause, status>>

\* conn.WriteMessage(TextMessage, content): a failure is logged and the
\* handler goes on to start the tailer all the same
WriteInitial(s) ==
    /\ pc[s] = "winit"
    /\ IF WriteOK(s)
       THEN /\ frames' = [frames EXCEPT ![s] = Append(@, pending[s][1])]
            /\ UNCHANGED logs
       ELSE /\ logs' = [logs EXCEPT ![s] = @ \cup {"initwritefail"}]
            /\ UNCHANGED frames
    /\ pending' = [pending EXCEPT ![s] = <<>>]
    /\ pc' = [pc EXCEPT ![s] = "tailfile"]
    /\ UNCHANGED <<exists, gen, file, hb, conn, broken, cancelled, tail, pings,
                   cause, status>>

\* tail.TailFile succeeds: t.Cleanup is deferred, the select loop starts
OpenTail(s) ==
    /\ pc[s] = "tailfile"
    /\ tail' = [tail EXCEPT ![s] = TailFile]
    /\ pc' = [pc EXCEPT ![s] = "select"]
    /\ UNCHANGED <<exists, gen, file, hb, conn, broken, cancelled, pending, frames,
                   pings, logs, cause, status>>

\* tail.TailFile returns an error: log and return
OpenTailFail(s) ==
    /\ pc[s] = "tailfile"
    /\ logs' = [logs EXCEPT ![s] = @ \cup {"tailopenfail"}]
    /\ Return(s, "tailopen")
    /\ UNCHANGED <<exists, gen, file, hb, broken, cancelled, pending, frames,
                   pings, status>>

RecvLineErrFatal(s) ==
    /\ pc[s] = "select"
    /\ tail[s].buf # <<>>
    /\ LET ev == tail[s].buf[1]
       IN IF ev.err
          THEN /\ logs' = [logs EXCEPT ![s] = @ \cup {"tailerr"}]
               /\ Return(s, "tailerr")
               /\ UNCHANGED pending
          ELSE /\ pending' = [pending EXCEPT
                                ![s] = <<TextFrame(LineFrame(ev.text), ev.off,
                                                   ev.gen, "line")>>]
               /\ tail' = [tail EXCEPT ![s].buf = <<>>]
               /\ pc' = [pc EXCEPT ![s] = "wline"]
               /\ UNCHANGED <<logs, conn, cause>>
    /\ UNCHANGED <<exists, gen, file, hb, broken, cancelled, frames, pings, status>>

\* case line, ok := <-t.Lines with ok: an event's error is logged, and the
\* handler goes on to write line.Text + "\n" whether or not Err is set
RecvLine(s) ==
    /\ pc[s] = "select"
    /\ tail[s].buf # <<>>
    /\ LET ev == tail[s].buf[1]
       IN /\ logs' = [logs EXCEPT
                        ![s] = IF ev.err THEN @ \cup {"tailerr"} ELSE @]
          /\ pending' = [pending EXCEPT
                           ![s] = <<TextFrame(LineFrame(ev.text), ev.off,
                                              ev.gen,
                                              IF ev.err THEN "err"
                                                        ELSE "line")>>]
    /\ tail' = [tail EXCEPT ![s].buf = <<>>]
    /\ pc' = [pc EXCEPT ![s] = "wline"]
    /\ UNCHANGED <<exists, gen, file, hb, conn, broken, cancelled, frames, pings,
                   cause, status>>

\* case line, ok := <-t.Lines with !ok: log and return
RecvClosed(s) ==
    /\ pc[s] = "select"
    /\ tail[s].st = "dead"
    /\ logs' = [logs EXCEPT ![s] = @ \cup {"chanclosed"}]
    /\ Return(s, "chanclosed")
    /\ UNCHANGED <<exists, gen, file, hb, broken, cancelled, pending, frames,
                   pings, status>>

\* conn.WriteMessage(TextMessage, line.Text + "\n"): on failure log and
\* return, otherwise back to the select
WriteLine(s) ==
    /\ pc[s] = "wline"
    /\ pending' = [pending EXCEPT ![s] = <<>>]
    /\ IF WriteOK(s)
       THEN /\ frames' = [frames EXCEPT ![s] = Append(@, pending[s][1])]
            /\ pc' = [pc EXCEPT ![s] = "select"]
            /\ UNCHANGED <<logs, cause, tail, conn>>
       ELSE /\ logs' = [logs EXCEPT ![s] = @ \cup {"writeerr"}]
            /\ Return(s, "writeerr")
            /\ UNCHANGED frames
    /\ UNCHANGED <<exists, gen, file, hb, broken, cancelled, pings, status>>

\* case <-r.Context().Done(): log the disconnect and return
CtxDone(s) ==
    /\ pc[s] = "select"
    /\ cancelled[s]
    /\ logs' = [logs EXCEPT ![s] = @ \cup {"disconnected"}]
    /\ Return(s, "cancel")
    /\ UNCHANGED <<exists, gen, file, hb, broken, cancelled, pending, frames,
                   pings, status>>

\* ----------------------------------------------------- heartbeat goroutine
\* the ticker fires: the goroutine goes on to write a ping
Tick(s) ==
    /\ hb[s] = "waiting"
    /\ hb' = [hb EXCEPT ![s] = "wping"]
    /\ UNCHANGED <<exists, gen, file, pc, conn, broken, cancelled, tail, pending,
                   frames, pings, logs, cause, status>>

PingPongTimeout(s) ==
    /\ hb[s] = "wping"
    /\ IF WriteOK(s)
       THEN /\ pings' = [pings EXCEPT ![s] = Min(@ + 1, MaxPings)]
            /\ hb' = [hb EXCEPT ![s] = "waiting"]
            /\ conn' = [conn EXCEPT ![s] = IF pings[s] + 1 >= 3 THEN "closed"
                                                               ELSE @]
            /\ UNCHANGED logs
       ELSE /\ logs' = [logs EXCEPT ![s] = @ \cup {"pingfail"}]
            /\ hb' = [hb EXCEPT ![s] = "done"]
            /\ UNCHANGED <<pings, conn>>
    /\ UNCHANGED <<exists, gen, file, pc, broken, cancelled, tail, pending, frames,
                   cause, status>>

\* conn.WriteMessage(PingMessage, []byte{}): on failure the goroutine logs
\* and returns; nothing else in the session is told
Ping(s) ==
    /\ hb[s] = "wping"
    /\ IF WriteOK(s)
       THEN /\ pings' = [pings EXCEPT ![s] = Min(@ + 1, MaxPings)]
            /\ hb' = [hb EXCEPT ![s] = "waiting"]
            /\ UNCHANGED logs
       ELSE /\ logs' = [logs EXCEPT ![s] = @ \cup {"pingfail"}]
            /\ hb' = [hb EXCEPT ![s] = "done"]
            /\ UNCHANGED pings
    /\ UNCHANGED <<exists, gen, file, pc, conn, broken, cancelled, tail, pending,
                   frames, cause, status>>

\* ------------------------------------------------------------------ system
Handler(s) ==
    \/ NotFound(s)
    \/ UpgradeFail(s)
    \/ Connect(s)
    \/ ReadFile(s)
    \/ WriteInitial(s)
    \/ OpenTail(s)
    \/ OpenTailFail(s)
    \/ RecvLine(s)
    \/ RecvClosed(s)
    \/ WriteLine(s)
    \/ CtxDone(s)

Heartbeat(s) == Tick(s) \/ Ping(s)

Tailer(s) == TailRead(s) \/ TailErrEvent(s) \/ TailDie(s)

Client(s) == ClientCancel(s) \/ BreakConn(s)

Next ==
    \/ CreateFile
    \/ AppendLine
    \/ \E s \in Running : Handler(s) \/ Heartbeat(s) \/ Tailer(s) \/ Client(s)

Spec == Init /\ [][Next]_vars

\* A handler that can take a step takes one (a goroutine that is not blocked
\* runs), and so does its tailer when a line is there to read.  Requests,
\* clients, the ticker and the log producer owe nothing.
Started(s) ==
    \/ ReadFile(s)
    \/ WriteInitial(s)
    \/ OpenTail(s)
    \/ OpenTailFail(s)
    \/ RecvLine(s)
    \/ RecvClosed(s)
    \/ WriteLine(s)
    \/ CtxDone(s)

Fairness ==
    \A s \in Running :
        /\ WF_vars(Started(s))
        /\ WF_vars(TailRead(s))

SpecFair == Spec /\ Fairness

\* the system with a log producer that also rotates and truncates the file.
\* The heartbeat goroutine and the tailer's error events are left out: they
\* touch neither the file nor the position of the tailer in it.
NextRot ==
    \/ CreateFile
    \/ AppendLine
    \/ RemoveFile
    \/ Truncate
    \/ \E s \in Running :
          \/ Handler(s)
          \/ Client(s)
          \/ TailRead(s)
          \/ TailReopen(s)
          \/ TailDie(s)

\* a tailer that can reopen the file does so: it polls the path
SpecRot ==
    /\ Init
    /\ [][NextRot]_vars
    /\ Fairness
    /\ \A s \in Running : WF_vars(TailReopen(s))

\* the ticker of a heartbeat goroutine fires every 30 s until the goroutine
\* returns, and a goroutine at its ping write performs it
SpecHb ==
    /\ Spec
    /\ Fairness
    /\ \A s \in Running : WF_vars(Tick(s)) /\ WF_vars(Ping(s))

\* two requests served at once by two runs of the handler on the same log
\* path.  The heartbeat goroutines and the tailers' error events are left
\* out: they are steps of one session like the ones kept.
NextTwo ==
    \/ CreateFile
    \/ AppendLine
    \/ \E s \in Sessions :
          \/ Handler(s)
          \/ Client(s)
          \/ TailRead(s)
          \/ TailDie(s)

SpecTwo == Init /\ [][NextTwo]_vars

\* ================================================================= claims
Streaming(s) == pc[s] \in {"select", "wline"}

\* the ping write of session s fails in this step
PingFails(s) == hb[s] = "wping" /\ hb'[s] = "done"

\* the ping write of session s succeeds in this step
PingSucceeds(s) == hb[s] = "wping" /\ hb'[s] = "waiting"

\* number of complete lines in a payload
NumLines(payload) == Cardinality({i \in DOMAIN payload : payload[i] = NL})

\* frames that carry bytes of the file (not the text of an error event)
FileFrames(s) == SelectSeq(frames[s], LAMBDA f : f.src # "err")

\* C1: a heartbeat write that fails while the session is streaming closes
\* the session in that step: the handler has returned and the connection is
\* closed, with no later tail event, write failure or cancellation needed.
C1_HeartbeatFailureCloses ==
    [][\A s \in Sessions :
          (PingFails(s) /\ Streaming(s))
              => (pc'[s] = "done" /\ conn'[s] = "closed")]_vars

\* C2: when the session sent the content C it read at connect time as its
\* first frame and no tail event carried an error, every later text frame is
\* a line appended after C, each exactly once and in file order; so while the
\* file still holds exactly C the client has that one frame only.
C2_InitialThenOnlyAppended ==
    \A s \in Sessions :
        (/\ frames[s] # <<>>
         /\ frames[s][1].src = "init"
         /\ FileFrames(s) = frames[s])
        => LET n0 == NumLines(frames[s][1].payload)
           IN \A j \in 2..Len(frames[s]) :
                 /\ n0 + j - 1 <= Len(file)
                 /\ frames[s][j].payload = LineFrame(file[n0 + j - 1])
                 /\ frames[s][j].off = OffsetOf(file, n0 + j - 1)

\* C3: the byte offsets of the file carried by the text frames a client
\* received never decrease from one frame to the next, and the frame with
\* the initial content comes before every frame of a tailed line.
C3_OffsetsNonDecreasing ==
    \A s \in Sessions :
        LET fs == FileFrames(s)
        IN \A i, j \in DOMAIN fs :
              i < j => /\ fs[i].off + Len(fs[i].payload) <= fs[j].off
                       /\ fs[j].src # "init"

\* C4: a session that ended at the cancellation case has its connection
\* closed and its tail cursor released, and ended without an error record.
C4_CancelReleasesAll ==
    \A s \in Sessions :
        cause[s] = "cancel"
            => /\ conn[s] = "closed"
               /\ tail[s].st # "open"
               /\ logs[s] \cap {"writeerr", "chanclosed", "tailopenfail"} = {}

\* C5: in every terminal state of a session that passed the upgrade the
\* connection is closed and the tail cursor, if it was opened, is released.
C5_ExitReleasesConnAndTail ==
    \A s \in Sessions :
        pc[s] = "done" => (conn[s] = "closed" /\ tail[s].st # "open")

\* C6: the step in which a write of a tailed line fails ends the session
\* (the handler reads and writes no line after it) and releases its cursor.
C6_LineWriteFailureCloses ==
    [][\A s \in Sessions :
          (pc[s] = "wline" /\ ~WriteOK(s) /\ pc'[s] # "wline")
              => /\ pc'[s] = "done"
                 /\ frames'[s] = frames[s]
                 /\ tail'[s].st # "open"]_vars

\* C7: observing the closed channel ends the session in that step, and once
\* it is observed no task of the session calls a write on the connection.
C7_NoWriteAfterChannelClosed ==
    [][\A s \in Sessions :
          /\ (pc[s] = "select" /\ tail[s].st = "dead" /\ pc'[s] # "select"
              /\ cause'[s] = "chanclosed") => pc'[s] = "done"
          /\ cause[s] = "chanclosed"
                => ~(PingFails(s) \/ PingSucceeds(s))]_vars

\* C8: receiving a tail event whose Err is set logs the error and keeps the
\* session going; the event's text plus a newline is the next frame written,
\* and after that write the session is back at the select, streaming.
C8_TailErrorKeepsStreaming ==
    [][\A s \in Sessions :
          /\ (/\ pc[s] = "select"
              /\ tail[s].buf # <<>>
              /\ tail[s].buf[1].err
              /\ pc'[s] # "select")
             => \/ cause'[s] = "cancel"
                \/ /\ pc'[s] = "wline"
                   /\ conn'[s] = conn[s]
                   /\ "tailerr" \in logs'[s]
                   /\ pending'[s] # <<>>
                   /\ pending'[s][1].payload = LineFrame(tail[s].buf[1].text)
          /\ (/\ pc[s] = "wline"
              /\ pending[s][1].src = "err"
              /\ WriteOK(s)
              /\ pc'[s] # "wline")
             => /\ pc'[s] = "select"
                /\ frames'[s] = Append(frames[s], pending[s][1])]_vars

\* C8 witness: the text of an error event reached the client and a line of
\* the file was delivered after it, the session still streaming.
C8_Witness ==
    \E s \in Sessions :
        /\ pc[s] = "select"
        /\ \E i, j \in DOMAIN frames[s] :
              /\ i < j
              /\ frames[s][i].src = "err"
              /\ frames[s][i].payload = LineFrame(ErrText)
              /\ frames[s][j].src = "line"

\* C9: a heartbeat that is written successfully, with no reply ever read,
\* changes nothing of the session: the handler stays where it is, the
\* connection stays as it is and no return is taken.  A heartbeat step can
\* end nothing but the heartbeat goroutine, and only on a write error.
C9_NoPongNeverCloses ==
    [][\A s \in Sessions :
          (hb[s] \in {"waiting", "wping"} /\ hb'[s] # hb[s])
              => /\ pc'[s] = pc[s]
                 /\ conn'[s] = conn[s]
                 /\ cause'[s] = cause[s]
                 /\ (hb'[s] = "done" => ~WriteOK(s))]_vars

\* C9 witness: three heartbeats written, none answered, session streaming.
C9_Witness ==
    \E s \in Sessions :
        /\ pings[s] >= 3
        /\ pc[s] = "select"
        /\ conn[s] = "open"
        /\ hb[s] = "waiting"

\* line number i of the file has reached the client of session s
Delivered(s, i) ==
    /\ i <= Len(file)
    /\ \E j \in DOMAIN frames[s] :
          /\ frames[s][j].off = OffsetOf(file, i)
          /\ frames[s][j].payload = LineFrame(file[i])

\* C10: reading a missing file at connect time only logs the failure: the
\* handler goes on to start the tailer with the connection open and nothing
\* sent; and every line the file holds once it exists is eventually sent to
\* the client of such a session unless the session ends first.
C10_MissingFileKeepsSession ==
    /\ [][\A s \in Sessions :
             (pc[s] = "readfile" /\ ~exists /\ pc'[s] # "readfile")
                 => /\ pc'[s] = "tailfile"
                    /\ conn'[s] = "open"
                    /\ cause'[s] = "none"
                    /\ "readfail" \in logs'[s]
                    /\ frames'[s] = <<>>]_vars
    /\ \A s \in Running : \A i \in 1..MaxFileLen :
          (/\ "readfail" \in logs[s]
           /\ pc[s] \in {"tailfile", "select", "wline"}
           /\ exists
           /\ i <= Len(file))
          ~> (pc[s] = "done" \/ Delivered(s, i))

\* C10 witness: the file was missing at connect time, was created and
\* written later, and its line reached the client.
C10_Witness ==
    \E s \in Sessions :
        /\ "readfail" \in logs[s]
        /\ Streaming(s)
        /\ \E j \in DOMAIN frames[s] : frames[s][j].src = "line"

\* line number i of the file with identity g has reached the client of
\* session s as a tailed line
DeliveredFrom(s, g, i) ==
    /\ gen = g
    /\ i <= Len(file)
    /\ \E j \in DOMAIN frames[s] :
          /\ frames[s][j].src = "line"
          /\ frames[s][j].gen = g
          /\ frames[s][j].off = OffsetOf(file, i)
          /\ frames[s][j].payload = LineFrame(file[i])

C12_RejectedCreatesNoSession ==
    \A s \in Sessions :
        /\ pc[s] = "rejected"
              => (status[s] = StatusNotFound) # ("upgradefail" \in logs[s])
        /\ (status[s] = StatusNotFound \/ "upgradefail" \in logs[s])
              => /\ pc[s] = "rejected"
                 /\ conn[s] = "none"
                 /\ hb[s] = "none"
                 /\ tail[s] = NoTail
                 /\ pending[s] = <<>>
                 /\ frames[s] = <<>>
                 /\ pings[s] = 0
                 /\ logs[s] \subseteq {"upgradefail"}

\* C12 witness: a request for another path was answered with 404.
C12_Witness ==
    \E s \in Sessions : pc[s] = "rejected" /\ status[s] = StatusNotFound


\* all that belongs to session s
SessionState(s) ==
    <<pc[s], hb[s], conn[s], broken[s], cancelled[s], tail[s], pending[s],
      frames[s], pings[s], logs[s], cause[s], status[s]>>

\* the frames of tailed lines session s has sent
LineFrames(s) == SelectSeq(frames[s], LAMBDA f : f.src = "line")

\* C13: with two sessions on the same path, a step that changes anything of
\* one session (a write failure, the end of its tailer, a cancellation, a
\* return and close among them) leaves everything of the other session as it
\* was, its tail cursor and its connection included; and what a client has
\* received is a function of the file and of how far its own session has
\* got: at most one frame of initial content, a prefix of the file, and the
\* first lines of the file in order, one frame each.
C13_SessionsIndependent ==
    /\ [][\A s, t \in Sessions :
             (s # t /\ SessionState(s)' # SessionState(s))
                 => SessionState(t)' = SessionState(t)]_vars
    /\ [](\A s \in Sessions :
             /\ \A j \in DOMAIN frames[s] :
                   frames[s][j].src = "init"
                       => /\ j = 1
                          /\ \E n \in 1..Len(file) :
                                frames[s][j].payload = Content(SubSeq(file, 1, n))
             /\ Len(LineFrames(s)) <= Len(file)
             /\ \A k \in DOMAIN LineFrames(s) :
                   /\ LineFrames(s)[k].payload = LineFrame(file[k])
                   /\ LineFrames(s)[k].off = OffsetOf(file, k))

\* C13 witness: one session ended on a failed write of a tailed line while
\* the other one, tailing the same path, has its connection and its tailer
\* open, stands at another line of the file and has sent a tailed line.
C13_Witness ==
    \E s, t \in Sessions :
        /\ s # t
        /\ pc[s] = "done"
        /\ cause[s] = "writeerr"
        /\ tail[s].cursor >= 1
        /\ pc[t] = "select"
        /\ conn[t] = "open"
        /\ tail[t].st = "open"
        /\ tail[t].cursor # tail[s].cursor
        /\ LineFrames(t) # <<>>


\* the handler of session s is at a write to the connection
HandlerWriting(s) == pc[s] \in {"winit", "wline"}

\* the heartbeat goroutine of session s is at a write to the connection
HeartbeatWriting(s) == hb[s] = "wping"

\* C14: the writes of a session are serialised: at no time are the handler
\* and the heartbeat goroutine of a session both at a write to its
\* connection.
C14_SingleWriter ==
    \A s \in Sessions : ~(HandlerWriting(s) /\ HeartbeatWriting(s))

\* C15: the step in which the write of the initial content fails ends the
\* session: the handler has returned, the connection is closed and the
\* session does not go on to start the tailer and stream.
C15_InitialWriteFailureCloses ==
    [][\A s \in Sessions :
          (pc[s] = "winit" /\ ~WriteOK(s) /\ pc'[s] # "winit")
              => (pc'[s] = "done" /\ conn'[s] = "closed")]_vars


\* C16: frame encoding is one to one.  An event received from the tailer
\* with text T becomes exactly one pending frame whose payload is T followed
\* by one line terminator, and the content read at connect time becomes
\* exactly one pending frame with the bytes read; a successful write appends
\* the pending frame, and nothing else, to what the client has received, so
\* frames leave in the order their inputs arrived; no other step changes
\* what the client has received.  A heartbeat is a control frame: a step of
\* the heartbeat goroutine adds at most one ping and never a text frame.
C16_FrameEncodingOneToOne ==
    /\ [][\A s \in Sessions :
             /\ (pc[s] = "select" /\ pc'[s] = "wline")
                    => /\ Len(pending'[s]) = 1
                       /\ pending'[s][1].payload = tail[s].buf[1].text \o <<NL>>
                       /\ NumLines(pending'[s][1].payload) = 1
             /\ (pc[s] = "readfile" /\ pc'[s] = "winit")
                    => /\ Len(pending'[s]) = 1
                       /\ pending'[s][1].payload = Content(file)
             /\ (HandlerWriting(s) /\ WriteOK(s) /\ pc'[s] # pc[s])
                    => frames'[s] = Append(frames[s], pending[s][1])
             /\ frames'[s] # frames[s]
                    => (HandlerWriting(s) /\ pc'[s] # pc[s] /\ hb'[s] = hb[s])
             /\ hb'[s] # hb[s]
                    => /\ frames'[s] = frames[s]
                       /\ pending'[s] = pending[s]
             /\ PingSucceeds(s) => pings'[s] = Min(pings[s] + 1, MaxPings)
             /\ ~PingSucceeds(s) => pings'[s] = pings[s]]_vars
    /\ [](\A s \in Sessions : \A j \in DOMAIN frames[s] :
             frames[s][j].src \in {"init", "line", "err"})

\* C16 witness: the client has received the initial content and then a
\* tailed line, one frame each, and a ping in between or after.
C16_Witness ==
    \E s \in Sessions :
        /\ Len(frames[s]) = 2
        /\ frames[s][1].src = "init"
        /\ frames[s][2].src = "line"
        /\ frames[s][2].payload = file[1] \o <<NL>>
        /\ pings[s] >= 1


\* C17: once the handler of a session has returned, by whatever exit, its
\* connection is closed for good and its heartbeat goroutine eventually
\* ends; a ping write attempted on the closed connection fails and is the
\* last step of the goroutine, which never runs again after it.
C17_HeartbeatEndsAfterSession ==
    /\ \A s \in Running : (pc[s] = "done") ~> (hb[s] = "done")
    /\ [][\A s \in Sessions :
             /\ pc[s] = "done" => (conn[s] = "closed" /\ conn'[s] = "closed")
             /\ (hb[s] = "wping" /\ conn[s] = "closed" /\ hb'[s] # hb[s])
                    => (hb'[s] = "done" /\ pings'[s] = pings[s])
             /\ hb[s] = "done" => hb'[s] = "done"]_vars

\* C17 witness: the handler returned with the peer still there, and the
\* heartbeat goroutine ended on the ping write that the close made fail.
C17_Witness ==
    \E s \in Sessions :
        /\ pc[s] = "done"
        /\ ~broken[s]
        /\ hb[s] = "done"
        /\ "pingfail" \in logs[s]


\* the bytes of line number i of the file are in a frame the client of
\* session s has received
Received(s, i) ==
    /\ i <= Len(file)
    /\ \E j \in DOMAIN frames[s] :
          LET f == frames[s][j]
              from == OffsetOf(file, i) - f.off
              n == Len(LineFrame(file[i]))
          IN /\ f.src \in {"init", "line"}
             /\ from >= 0
             /\ from + n <= Len(f.payload)
             /\ SubSeq(f.payload, from + 1, from + n) = LineFrame(file[i])

\* C18: no line is lost around the start of a session.  Every line the file
\* holds while the handler is anywhere between the read of the initial
\* content and the select loop (so also a line appended after the read and
\* before the tailer starts) eventually reaches the client in a text frame,
\* unless the session ends first; a write that fails ends it.
C18_NoLineLostAroundStart ==
    \A s \in Running : \A i \in 1..MaxFileLen :
        (/\ pc[s] \in {"readfile", "winit", "tailfile", "select", "wline"}
         /\ exists
         /\ i <= Len(file))
        ~> (pc[s] = "done" \/ Received(s, i))

\* C18 witness: the client received the content read at connect time and,
\* from the tailer, a line that lies beyond that content, and the session
\* is still open.
C18_Witness ==
    \E s \in Sessions :
        /\ pc[s] = "select"
        /\ conn[s] = "open"
        /\ frames[s] # <<>>
        /\ frames[s][1].src = "init"
        /\ \E j \in DOMAIN frames[s] :
              /\ frames[s][j].src = "line"
              /\ frames[s][j].off >= Len(frames[s][1].payload)
        /\ \A i \in 1..Len(file) : Received(s, i)

====
